---- MODULE Spec2Model ----
(***************************************************************************)
(* Model of SearchQueryParenthesisedParser and of                          *)
(* SpiresToInvenioSyntaxConverter (search_engine_query_parser.py).         *)
(* A query is a sequence of one-character strings.  Positions are the      *)
(* 0-based positions of the Python code; -1 is the "cleared" position.     *)
(* Spec is one call of parse_query, SpecReuse calls of parse_query one     *)
(* after another on one instance, SpecConcurrent calls of parse_query at   *)
(* the same time on two instances, SpecConvert one call of convert_query.  *)
(***************************************************************************)
EXTENDS Integers, Sequences, FiniteSets, TLC

VARIABLES
    input,                        \* the argument of parse_query
    pc,                           \* "call", "scan", "done" (returned) or "error" (raised)
    query,                        \* self._query
    current_index,                \* loop variable of parse_query
    patterns,                     \* self._patterns
    pattern_beginning,            \* self._pattern_beginning
    pattern_end,                  \* self._pattern_end
    preceding_operator,           \* self._preceding_operator
    preceding_operator_position,  \* self._preceding_operator_position
    following_operator,           \* self._following_operator
    following_operator_position,  \* self._following_operator_position
    inside_parentheses,           \* self._inside_parentheses
    inside_quotes,                \* local inside_quotes of parse_query
    previous_character,           \* local previous_character of parse_query
    current_quotes_symbol,        \* local current_quotes_symbol of parse_query
    result,                       \* the list parse_query returned
    error,                        \* the message of the raised exception
    spires_query,                 \* the argument of convert_query
    converted_query,              \* local query of convert_query
    convert_pc,                   \* the stage convert_query is to run next
    CFG_INSPIRE_SITE,             \* invenio.config.CFG_INSPIRE_SITE
    parsers,                      \* the instances of the concurrent calls
    class_patterns                \* SearchQueryParenthesisedParser._patterns

vars_of_parser ==
    <<input, pc, query, current_index, patterns, pattern_beginning,
      pattern_end, preceding_operator, preceding_operator_position,
      following_operator, following_operator_position,
      inside_parentheses, inside_quotes, previous_character,
      current_quotes_symbol, result, error>>

vars_of_converter == <<spires_query, converted_query, convert_pc, CFG_INSPIRE_SITE>>

vars_of_instances == <<parsers, class_patterns>>

vars == <<vars_of_parser, vars_of_converter, vars_of_instances>>

-----------------------------------------------------------------------------
(* Characters and strings *)

DQ == "\""
SQ == "'"
BS == "\\"
SP == " "

operators == {"+", "|", "-"}

DEFAULT_OPERATOR == "+"

quotes_symbols == {DQ, SQ}

error_message_mismatched_parentheses == "Mismatched parenthesis."

error_message_nested_parentheses_not_supported == "Nested parenthesis are currently not supported."

UpperAlphabet ==
    <<"A", "B", "C", "D", "E", "F", "G", "H", "I", "J", "K", "L", "M",
      "N", "O", "P", "Q", "R", "S", "T", "U", "V", "W", "X", "Y", "Z">>

LowerAlphabet ==
    <<"a", "b", "c", "d", "e", "f", "g", "h", "i", "j", "k", "l", "m",
      "n", "o", "p", "q", "r", "s", "t", "u", "v", "w", "x", "y", "z">>

UpperLetters == {UpperAlphabet[k] : k \in 1..26}

LowerLetters == {LowerAlphabet[k] : k \in 1..26}

Digits == {"0", "1", "2", "3", "4", "5", "6", "7", "8", "9"}

WordCharacters == UpperLetters \cup LowerLetters \cup Digits \cup {"_"}

\* \w of the re module
IsWordChar(c) == c \in WordCharacters

\* str.isspace()
isspace(c) == c = SP

LowerOf == [c \in UpperLetters |-> LowerAlphabet[CHOOSE k \in 1..26 : UpperAlphabet[k] = c]]

\* re.IGNORECASE folding of one character
Lower(c) == IF c \in UpperLetters THEN LowerOf[c] ELSE c

\* s[i] for a 0-based position i
At(s, i) == s[i + 1]

\* s[b:e] for 0 <= b
Slice(s, b, e) ==
    LET hi == IF e > Len(s) THEN Len(s) ELSE e
    IN  IF b >= hi THEN << >> ELSE SubSeq(s, b + 1, hi)

RECURSIVE lstrip(_)
lstrip(s) == IF s # << >> /\ isspace(Head(s)) THEN lstrip(Tail(s)) ELSE s

RECURSIVE rstrip(_)
rstrip(s) ==
    IF s # << >> /\ isspace(s[Len(s)]) THEN rstrip(SubSeq(s, 1, Len(s) - 1)) ELSE s

\* str.strip()
strip(s) == rstrip(lstrip(s))

-----------------------------------------------------------------------------
(* _clean_query: and/or/not outside the regular expression's matches *)

\* '\b' at 0-based position i of s
WordBoundary(s, i) ==
    LET before == i > 0 /\ IsWordChar(At(s, i - 1))
        after == i < Len(s) /\ IsWordChar(At(s, i))
    IN  before # after

\* does '\b' + old_word + '\b' (IGNORECASE) match s at position i
WordMatchesAt(s, i, old_word) ==
    /\ i + Len(old_word) <= Len(s)
    /\ \A k \in 1..Len(old_word) : Lower(At(s, i + k - 1)) = old_word[k]
    /\ WordBoundary(s, i)
    /\ WordBoundary(s, i + Len(old_word))

RECURSIVE SubFrom(_, _, _, _)
SubFrom(s, i, old_word, new_word) ==
    IF i >= Len(s) THEN << >>
    ELSE IF WordMatchesAt(s, i, old_word)
         THEN <<new_word>> \o SubFrom(s, i + Len(old_word), old_word, new_word)
         ELSE <<At(s, i)>> \o SubFrom(s, i + 1, old_word, new_word)

replace_word_case_insensitive(str, old_word, new_word) ==
    SubFrom(str, 0, old_word, new_word)

clean_operators(q) ==
    LET q1 == replace_word_case_insensitive(q, <<"n", "o", "t">>, "-")
        q2 == replace_word_case_insensitive(q1, <<"a", "n", "d">>, "+")
    IN  replace_word_case_insensitive(q2, <<"o", "r">>, "|")

\* The positions j at which a match of _re_quotes_match starting at i can end
\* (j is the position of the closing quote): s[i] is not a backslash, s[i+1]
\* is a quote, s[j] is the same quote and s[j-1], which is part of the quoted
\* content, is not a backslash.
QuoteMatchEnds(s, i) ==
    IF i + 1 < Len(s) /\ At(s, i) # BS /\ At(s, i + 1) \in quotes_symbols
    THEN {j \in (i + 3)..(Len(s) - 1) : At(s, j) = At(s, i + 1) /\ At(s, j - 1) # BS}
    ELSE {}

Minimum(S) == CHOOSE x \in S : \A y \in S : x <= y

\* the first match of _re_quotes_match at or after position from: <<start, end>>
\* (end exclusive, as match.end()), or << >> when there is none
re_quotes_match(s, from) ==
    LET starts == {i \in from..(Len(s) - 1) : QuoteMatchEnds(s, i) # {}}
    IN  IF starts = {} THEN << >>
        ELSE LET i == Minimum(starts)
             IN  <<i, Minimum(QuoteMatchEnds(s, i)) + 1>>

RECURSIVE CleanFrom(_, _)
CleanFrom(q, current_position) ==
    LET match == re_quotes_match(q, current_position)
    IN  IF match = << >>
        THEN clean_operators(Slice(q, current_position, Len(q)))
        ELSE clean_operators(Slice(q, current_position, match[1]))
                 \o Slice(q, match[1], match[2])
                 \o CleanFrom(q, match[2])

clean_query(q) == CleanFrom(q, 0)

-----------------------------------------------------------------------------
(* Helpers of the parser *)

hasQueryParentheses(q) ==
    \/ \E i \in 1..Len(q) : q[i] = "("
    \/ \E i \in 1..Len(q) : q[i] = ")"

\* parse_query trimming the query it returns
unparenthesised_result_trimmed(q) == <<<<DEFAULT_OPERATOR>>, strip(q)>>

\* the value parse_query returns for a query without parentheses
unparenthesised_result(q) == <<<<DEFAULT_OPERATOR>>, q>>

\* line 184 letting the parentheses through
passes_over_quoted_but_parentheses(inside, character, symbol) ==
    inside /\ character # symbol /\ character \notin {"(", ")"}

\* line 184: the character is inside quotes and is passed over
passes_over_quoted(inside, character, symbol) == inside /\ character # symbol

\* lines 198 and 200 without the test of the previous character
not_escaped_whatever_precedes(previous) == TRUE

\* lines 188, 198, 200: the character is not escaped
not_escaped(previous) == previous # BS

\* line 233 with the test left out
is_nested_parenthesis_unchecked(inside) == FALSE

\* line 233: an opening parenthesis inside parentheses
is_nested_parenthesis(inside) == inside

\* line 253 with the test left out
is_mismatched_close_unchecked(inside) == FALSE

\* line 253: a closing parenthesis outside parentheses
is_mismatched_close(inside) == ~inside

\* line 214: the query ends inside parentheses
is_mismatched_end(inside) == inside

\* line 93 left out: the flag of the previous call is kept
kept_inside_parentheses == inside_parentheses

\* line 93: _init_parsing clears the flag
cleared_inside_parentheses == FALSE

\* the four operator fields, as one record
Operators(po, ppos, fo, fpos) ==
    [preceding |-> po, preceding_position |-> ppos,
     following |-> fo, following_position |-> fpos]

CurrentOperators ==
    Operators(preceding_operator, preceding_operator_position,
              following_operator, following_operator_position)

assign_default_values_for_operators_if_necessary(ops) ==
    IF ops.preceding = ""
    THEN [ops EXCEPT !.preceding = DEFAULT_OPERATOR, !.preceding_position = -1]
    ELSE [ops EXCEPT !.following = DEFAULT_OPERATOR, !.following_position = -1]

\* _handle_operator without its return inside parentheses
handle_operator_inside_parentheses(st, inside, operator, operator_position) ==
    IF st.ops.preceding = ""
    THEN [ops |-> [preceding |-> operator, preceding_position |-> operator_position,
                   following |-> "", following_position |-> -1],
          beginning |-> operator_position + 1]
    ELSE [st EXCEPT !.ops.following = operator,
                    !.ops.following_position = operator_position]

\* _handle_operator on the operator fields and _pattern_beginning
handle_operator(st, inside, operator, operator_position) ==
    IF inside THEN st
    ELSE IF st.ops.preceding = ""
         THEN [ops |-> Operators(operator, operator_position, "", -1),
               beginning |-> operator_position + 1]
         ELSE [st EXCEPT !.ops.following = operator,
                         !.ops.following_position = operator_position]

\* _handle_non_white_space_characters on the operator fields
handle_non_white_space_characters(ops, inside, character) ==
    IF isspace(character) \/ inside
    THEN ops
    ELSE assign_default_values_for_operators_if_necessary(ops)

calculate_pattern_beginning(beginning, ppos) ==
    IF beginning < ppos THEN ppos + 1 ELSE beginning

\* _calculate_pattern_end without the cut at the following operator
calculate_pattern_end_uncut(end, fpos) == end

calculate_pattern_end(end, fpos) ==
    IF end > fpos /\ fpos # -1 THEN fpos ELSE end

\* the text _append_pattern cuts out of the query
current_pattern(q, beginning, end, ops) ==
    strip(Slice(q, calculate_pattern_beginning(beginning, ops.preceding_position),
                   calculate_pattern_end(end, ops.following_position)))

\* _append_pattern on _patterns
append_pattern(pats, q, beginning, end, ops) ==
    LET pattern == current_pattern(q, beginning, end, ops)
    IN  IF pattern # << >> THEN Append(pats, pattern) ELSE pats

append_preceding_operator(pats, ops) ==
    IF ops.preceding # ""
    THEN Append(pats, <<ops.preceding>>)
    ELSE Append(pats, <<DEFAULT_OPERATOR>>)

append_following_operator(pats, ops) ==
    IF ops.following # "" THEN Append(pats, <<ops.following>>) ELSE pats

\* _append_last_pattern on _patterns; end is _pattern_end after its increment
append_last_pattern(pats, q, beginning, end, ops) ==
    LET appended == append_pattern(append_preceding_operator(pats, ops),
                                   q, beginning, end, ops)
    IN  IF appended[Len(appended)] = <<DEFAULT_OPERATOR>>
        THEN SubSeq(appended, 1, Len(appended) - 1)
        ELSE appended

-----------------------------------------------------------------------------
(* The queries parse_query is called with *)

MaxTokens == 3

MaxGroup == 3

MaxClause == 2

Characters == {"a", SP, "(", ")", "+", "|", DQ, SQ, BS}

Words == {<<"a", "n", "d">>, <<"o", "r">>, <<"n", "o", "t">>}

Tokens == {<<c>> : c \in Characters} \cup Words

RECURSIVE Flatten(_)
Flatten(ts) == IF ts = << >> THEN << >> ELSE Head(ts) \o Flatten(Tail(ts))

TokenSeqs(T, n) == UNION {[1..k -> T] : k \in 0..n}

\* every query of at most MaxTokens tokens
GeneralQueries == {Flatten(ts) : ts \in TokenSeqs(Tokens, MaxTokens)}

GroupTokens == {<<"a">>, <<DQ>>, <<"+">>}

ClauseTokens == {<<"a">>, <<DQ>>, <<SP>>}

\* ( G ) op C
GroupOperatorClauseQueries ==
    {<<"(">> \o Flatten(g) \o <<")">> \o w \o <<op>> \o Flatten(c) :
        g \in TokenSeqs(GroupTokens, MaxGroup), w \in {<< >>, <<SP>>},
        op \in operators, c \in TokenSeqs(ClauseTokens, MaxClause)}

\* C ( G ) and ( a ) C ( G )
GroupClauseGroupQueries ==
    {p \o Flatten(c) \o <<"(">> \o Flatten(g) \o <<")">> :
        p \in {<< >>, <<"(", "a", ")">>},
        c \in TokenSeqs(ClauseTokens \cup Words, MaxClause),
        g \in TokenSeqs(GroupTokens, MaxClause)}

OperatorTokensAndSpace == {<<"+">>, <<"|">>, <<"-">>, <<SP>>}

\* C op ( a )
ClauseOperatorGroupQueries ==
    {Flatten(c) \o Flatten(o) \o <<"(", "a", ")">> :
        c \in TokenSeqs(ClauseTokens, MaxClause),
        o \in TokenSeqs(OperatorTokensAndSpace, MaxClause)}

\* the queries of the class docstring and of the escaped-quote case
ExampleQueries ==
    { <<"e","l","l","i","s",SP,"A","N","D",SP,"(","m","u","o","n",SP,"O","R",SP,"k","a","o","n",")">>,
      <<"a", SP, "(", "b">>,
      <<"a", ")", SP, "b">>,
      <<"a", SP, "(", "b", SP, "(", "c", ")", SP, "d">>,
      <<DQ, "a", BS, DQ, "b", DQ>>,
      <<"(", DQ, "a", BS, DQ, "(", "b", DQ, ")">>,
      <<"(", "a", ")", SP, "-", SP, "b">>,
      <<DQ, "A", "N", "D", DQ, SP, "(", "a", ")">>,
      <<"(", "a", SP, "(", "b">>,
      <<"a", ")", SP, "(", "b", SP, "(", "c">>,
      <<"(", DQ, BS, DQ, ")", DQ, ")">>,
      <<"a", BS, "(", "b", SP, "(", "c", BS, ")", ")">> }

Queries ==
    GeneralQueries \cup GroupOperatorClauseQueries
        \cup GroupClauseGroupQueries \cup ClauseOperatorGroupQueries
        \cup ExampleQueries

MaxReuseTokens == 3

ReuseTokens == {<<"a">>, <<"(">>, <<")">>, <<"+">>, <<DQ>>}

\* the queries of the calls made one after another on one instance
ReuseQueries ==
    {Flatten(ts) : ts \in TokenSeqs(ReuseTokens, MaxReuseTokens)}
        \cup { <<"a", SP, "(", "a">>,
               <<"(", "a", ")", SP, "+", SP, "a">>,
               <<DQ, "a", "(">>,
               <<"a", "(", "a", ")">> }

-----------------------------------------------------------------------------
(* parse_query *)

\* a freshly constructed instance called with one of the queries qs
InitialState(qs) ==
    /\ input \in qs
    /\ pc = "call"
    /\ query = << >>
    /\ current_index = 0
    /\ patterns = << >>
    /\ pattern_beginning = 0
    /\ pattern_end = 0
    /\ preceding_operator = ""
    /\ preceding_operator_position = -1
    /\ following_operator = ""
    /\ following_operator_position = -1
    /\ inside_parentheses = FALSE
    /\ inside_quotes = FALSE
    /\ previous_character = ""
    /\ current_quotes_symbol = ""
    /\ result = << >>
    /\ error = ""

\* no call of convert_query is under way
ConverterIdle ==
    /\ spires_query = << >>
    /\ converted_query = << >>
    /\ convert_pc = "idle"
    /\ CFG_INSPIRE_SITE = FALSE

\* no concurrent calls are under way
NoInstances ==
    /\ parsers = << >>
    /\ class_patterns = << >>

Init == InitialState(Queries) /\ ConverterIdle /\ NoInstances

SetOperators(ops) ==
    /\ preceding_operator' = ops.preceding
    /\ preceding_operator_position' = ops.preceding_position
    /\ following_operator' = ops.following
    /\ following_operator_position' = ops.following_position

\* the current character of the scan
character == At(query, current_index)

Scanning == pc = "scan" /\ current_index < Len(query)

\* lines 207-208 and the loop's next index
NextCharacter ==
    /\ previous_character' = character
    /\ current_index' = current_index + 1

\* _raise_error
raise_error(error_message_text) ==
    /\ pc' = "error"
    /\ error' = error_message_text
    /\ result' = << >>

\* lines 162-165
ReturnUnparenthesised ==
    /\ UNCHANGED <<vars_of_converter, vars_of_instances>>
    /\ pc = "call"
    /\ ~hasQueryParentheses(input)
    /\ result' = unparenthesised_result(input)
    /\ pc' = "done"
    /\ UNCHANGED <<input, query, current_index, patterns, pattern_beginning,
                   pattern_end, preceding_operator, preceding_operator_position,
                   following_operator, following_operator_position,
                   inside_parentheses, inside_quotes, previous_character,
                   current_quotes_symbol, error>>

\* line 167 (_init_parsing) and lines 169-175
InitParsing ==
    /\ UNCHANGED <<vars_of_converter, vars_of_instances>>
    /\ pc = "call"
    /\ hasQueryParentheses(input)
    /\ query' = clean_query(input)
    /\ patterns' = << >>
    /\ pattern_beginning' = 0
    /\ pattern_end' = 0
    /\ SetOperators(Operators("", -1, "", -1))
    /\ inside_parentheses' = cleared_inside_parentheses
    /\ inside_quotes' = FALSE
    /\ previous_character' = ""
    /\ current_quotes_symbol' = ""
    /\ current_index' = 0
    /\ pc' = "scan"
    /\ UNCHANGED <<input, result, error>>

\* lines 184-185
PassOverQuoted ==
    /\ UNCHANGED <<vars_of_converter, vars_of_instances>>
    /\ Scanning
    /\ passes_over_quoted(inside_quotes, character, current_quotes_symbol)
    /\ pattern_end' = current_index
    /\ current_index' = current_index + 1
    /\ UNCHANGED <<input, pc, query, patterns, pattern_beginning,
                   preceding_operator, preceding_operator_position,
                   following_operator, following_operator_position,
                   inside_parentheses, inside_quotes, previous_character,
                   current_quotes_symbol, result, error>>

\* line 188: the branch of the quotes
IsQuotes ==
    /\ ~passes_over_quoted(inside_quotes, character, current_quotes_symbol)
    /\ character \in quotes_symbols
    /\ not_escaped(previous_character)

\* lines 188-197
HandleQuotes ==
    /\ UNCHANGED <<vars_of_converter, vars_of_instances>>
    /\ Scanning
    /\ IsQuotes
    /\ pattern_end' = current_index
    /\ IF ~inside_quotes
       THEN /\ inside_quotes' = TRUE
            /\ current_quotes_symbol' = character
            /\ SetOperators(assign_default_values_for_operators_if_necessary(CurrentOperators))
       ELSE IF character = current_quotes_symbol
            THEN /\ inside_quotes' = FALSE
                 /\ current_quotes_symbol' = ""
                 /\ UNCHANGED <<preceding_operator, preceding_operator_position,
                                following_operator, following_operator_position>>
            ELSE UNCHANGED <<inside_quotes, current_quotes_symbol,
                             preceding_operator, preceding_operator_position,
                             following_operator, following_operator_position>>
    /\ NextCharacter
    /\ UNCHANGED <<input, pc, query, patterns, pattern_beginning,
                   inside_parentheses, result, error>>

\* lines 198-199 and _handle_open_parenthesis
HandleOpenParenthesis ==
    /\ UNCHANGED <<vars_of_converter, vars_of_instances>>
    /\ Scanning
    /\ ~passes_over_quoted(inside_quotes, character, current_quotes_symbol)
    /\ ~IsQuotes
    /\ character = "("
    /\ not_escaped(previous_character)
    /\ pattern_end' = current_index
    /\ IF is_nested_parenthesis(inside_parentheses)
       THEN /\ raise_error(error_message_nested_parentheses_not_supported)
            /\ UNCHANGED <<patterns, pattern_beginning, inside_parentheses,
                           preceding_operator, preceding_operator_position,
                           following_operator, following_operator_position,
                           previous_character, current_index>>
       ELSE /\ patterns' =
                   append_following_operator(
                       append_pattern(
                           append_preceding_operator(patterns, CurrentOperators),
                           query, pattern_beginning, current_index, CurrentOperators),
                       CurrentOperators)
            /\ pattern_beginning' = current_index + 1
            /\ inside_parentheses' = TRUE
            /\ SetOperators(Operators("", -1, "", -1))
            /\ NextCharacter
            /\ UNCHANGED <<pc, result, error>>
    /\ UNCHANGED <<input, query, inside_quotes, current_quotes_symbol>>

\* lines 200-201 and _handle_close_parenthesis
HandleCloseParenthesis ==
    /\ UNCHANGED <<vars_of_converter, vars_of_instances>>
    /\ Scanning
    /\ ~passes_over_quoted(inside_quotes, character, current_quotes_symbol)
    /\ ~IsQuotes
    /\ character = ")"
    /\ not_escaped(previous_character)
    /\ pattern_end' = current_index
    /\ IF is_mismatched_close(inside_parentheses)
       THEN /\ raise_error(error_message_mismatched_parentheses)
            /\ UNCHANGED <<patterns, pattern_beginning, inside_parentheses,
                           previous_character, current_index>>
       ELSE /\ patterns' = append_pattern(patterns, query, pattern_beginning,
                                          current_index, CurrentOperators)
            /\ pattern_beginning' = current_index + 1
            /\ inside_parentheses' = FALSE
            /\ NextCharacter
            /\ UNCHANGED <<pc, result, error>>
    /\ UNCHANGED <<input, query, inside_quotes, current_quotes_symbol,
                   preceding_operator, preceding_operator_position,
                   following_operator, following_operator_position>>

\* lines 198-202: the character reaches neither parenthesis branch
IsParenthesis ==
    /\ character \in {"(", ")"}
    /\ not_escaped(previous_character)

\* lines 202-203 and _handle_operator
HandleOperator ==
    /\ UNCHANGED <<vars_of_converter, vars_of_instances>>
    /\ Scanning
    /\ ~passes_over_quoted(inside_quotes, character, current_quotes_symbol)
    /\ ~IsQuotes
    /\ ~IsParenthesis
    /\ character \in operators
    /\ pattern_end' = current_index
    /\ LET st == handle_operator([ops |-> CurrentOperators,
                                  beginning |-> pattern_beginning],
                                 inside_parentheses, character, current_index)
       IN  /\ SetOperators(st.ops)
           /\ pattern_beginning' = st.beginning
    /\ NextCharacter
    /\ UNCHANGED <<input, pc, query, patterns, inside_parentheses,
                   inside_quotes, current_quotes_symbol, result, error>>

\* lines 204-205 and _handle_non_white_space_characters
HandleNonWhiteSpaceCharacters ==
    /\ UNCHANGED <<vars_of_converter, vars_of_instances>>
    /\ Scanning
    /\ ~passes_over_quoted(inside_quotes, character, current_quotes_symbol)
    /\ ~IsQuotes
    /\ ~IsParenthesis
    /\ character \notin operators
    /\ pattern_end' = current_index
    /\ SetOperators(handle_non_white_space_characters(CurrentOperators,
                                                      inside_parentheses, character))
    /\ NextCharacter
    /\ UNCHANGED <<input, pc, query, patterns, pattern_beginning,
                   inside_parentheses, inside_quotes, current_quotes_symbol,
                   result, error>>

\* lines 210-217: _append_last_pattern, the check for mismatched parentheses
\* and the return
AppendLastPattern ==
    /\ UNCHANGED <<vars_of_converter, vars_of_instances>>
    /\ pc = "scan"
    /\ current_index = Len(query)
    /\ pattern_end' = pattern_end + 1
    /\ patterns' = append_last_pattern(patterns, query, pattern_beginning,
                                       pattern_end + 1, CurrentOperators)
    /\ pattern_beginning' = pattern_end + 2
    /\ IF is_mismatched_end(inside_parentheses)
       THEN raise_error(error_message_mismatched_parentheses)
       ELSE /\ pc' = "done"
            /\ result' = patterns'
            /\ UNCHANGED error
    /\ UNCHANGED <<input, query, current_index, preceding_operator,
                   preceding_operator_position, following_operator,
                   following_operator_position, inside_parentheses,
                   inside_quotes, previous_character, current_quotes_symbol>>

Next ==
    \/ ReturnUnparenthesised
    \/ InitParsing
    \/ PassOverQuoted
    \/ HandleQuotes
    \/ HandleOpenParenthesis
    \/ HandleCloseParenthesis
    \/ HandleOperator
    \/ HandleNonWhiteSpaceCharacters
    \/ AppendLastPattern

Spec == Init /\ [][Next]_vars

-----------------------------------------------------------------------------
(* Calls made one after another on the same instance *)

InitReuse == InitialState(ReuseQueries) /\ ConverterIdle /\ NoInstances

\* the next call of parse_query on the instance: the fields keep what the
\* previous call left in them
CallAgain ==
    /\ UNCHANGED <<vars_of_converter, vars_of_instances>>
    /\ pc \in {"done", "error"}
    /\ input' \in ReuseQueries
    /\ pc' = "call"
    /\ result' = << >>
    /\ error' = ""
    /\ UNCHANGED <<query, current_index, patterns, pattern_beginning,
                   pattern_end, preceding_operator, preceding_operator_position,
                   following_operator, following_operator_position,
                   inside_parentheses, inside_quotes, previous_character,
                   current_quotes_symbol>>

NextReuse ==
    \/ ReturnUnparenthesised
    \/ InitParsing
    \/ PassOverQuoted
    \/ HandleQuotes
    \/ HandleOpenParenthesis
    \/ HandleCloseParenthesis
    \/ HandleOperator
    \/ HandleNonWhiteSpaceCharacters
    \/ AppendLastPattern
    \/ CallAgain

SpecReuse == InitReuse /\ [][NextReuse]_vars

-----------------------------------------------------------------------------
(* parse_query on a freshly constructed instance, as a function of the query *)

FreshScan(q) ==
    [query |-> clean_query(q), patterns |-> << >>, beginning |-> 0,
     ops |-> Operators("", -1, "", -1), inside_parentheses |-> FALSE,
     inside_quotes |-> FALSE, previous |-> "", symbol |-> "", raised |-> ""]

\* one turn of the loop of lines 178-208 at position i
ScanCharacter(st, i) ==
    LET c == At(st.query, i)
    IN  IF passes_over_quoted(st.inside_quotes, c, st.symbol) THEN st
        ELSE IF c \in quotes_symbols /\ not_escaped(st.previous)
        THEN IF ~st.inside_quotes
             THEN [st EXCEPT !.inside_quotes = TRUE, !.symbol = c, !.previous = c,
                             !.ops = assign_default_values_for_operators_if_necessary(st.ops)]
             ELSE [st EXCEPT !.inside_quotes = FALSE, !.symbol = "", !.previous = c]
        ELSE IF c = "(" /\ not_escaped(st.previous)
        THEN IF is_nested_parenthesis(st.inside_parentheses)
             THEN [st EXCEPT !.raised = error_message_nested_parentheses_not_supported]
             ELSE [st EXCEPT
                     !.patterns = append_following_operator(
                                      append_pattern(
                                          append_preceding_operator(st.patterns, st.ops),
                                          st.query, st.beginning, i, st.ops),
                                      st.ops),
                     !.beginning = i + 1,
                     !.inside_parentheses = TRUE,
                     !.ops = Operators("", -1, "", -1),
                     !.previous = c]
        ELSE IF c = ")" /\ not_escaped(st.previous)
        THEN IF is_mismatched_close(st.inside_parentheses)
             THEN [st EXCEPT !.raised = error_message_mismatched_parentheses]
             ELSE [st EXCEPT
                     !.patterns = append_pattern(st.patterns, st.query,
                                                 st.beginning, i, st.ops),
                     !.beginning = i + 1,
                     !.inside_parentheses = FALSE,
                     !.previous = c]
        ELSE IF c \in operators
        THEN LET after == handle_operator([ops |-> st.ops, beginning |-> st.beginning],
                                          st.inside_parentheses, c, i)
             IN  [st EXCEPT !.ops = after.ops, !.beginning = after.beginning,
                            !.previous = c]
        ELSE [st EXCEPT !.ops = handle_non_white_space_characters(
                                    st.ops, st.inside_parentheses, c),
                        !.previous = c]

RECURSIVE ScanFrom(_, _)
ScanFrom(st, i) ==
    IF st.raised # "" \/ i >= Len(st.query) THEN st
    ELSE ScanFrom(ScanCharacter(st, i), i + 1)

\* <<"done", list>> or <<"error", message>>
parse_query(q) ==
    IF ~hasQueryParentheses(q) THEN <<"done", unparenthesised_result(q)>>
    ELSE LET st == ScanFrom(FreshScan(q), 0)
         IN  IF st.raised # "" THEN <<"error", st.raised>>
             ELSE IF is_mismatched_end(st.inside_parentheses)
             THEN <<"error", error_message_mismatched_parentheses>>
             ELSE <<"done", append_last_pattern(st.patterns, st.query, st.beginning,
                                                Len(st.query), st.ops)>>

-----------------------------------------------------------------------------
(* Calls of parse_query that run at the same time, each on its own instance *)

MaxConcurrentTokens == 2

ConcurrentTokens == {<<"a">>, <<"(">>, <<")">>, <<"+">>}

\* the queries of the concurrent calls
ConcurrentQueries ==
    {Flatten(ts) : ts \in TokenSeqs(ConcurrentTokens, MaxConcurrentTokens)}
        \cup { <<"(", "a", ")">>, <<"a", "(", "a", ")">> }

\* the instances, one for each call
Instances == {1, 2}

\* line 86 left out: _init_parsing leaves _patterns to the class
init_parsing_keeps_class_patterns == FALSE

\* line 86: _init_parsing assigns self._patterns, a list of the instance's own
init_parsing_assigns_patterns == TRUE

\* the instance that __init__ has constructed (lines 73-75), to be called
\* with the query q; an attribute the instance has not been assigned is the
\* attribute of the class (lines 49-67)
Constructed(q) ==
    [input |-> q, pc |-> "call", current_index |-> 0,
     own_patterns |-> init_parsing_assigns_patterns,
     scan |-> FreshScan(<< >>), result |-> << >>, error |-> ""]

InitConcurrent ==
    /\ InitialState({<< >>})
    /\ ConverterIdle
    /\ parsers \in [Instances -> {Constructed(q) : q \in ConcurrentQueries}]
    /\ class_patterns = << >>

\* self._patterns as the parser p reads it: the list of the instance, or the
\* list of the class (line 61) when the instance has none
patterns_of(p) == IF p.own_patterns THEN p.scan.patterns ELSE class_patterns

\* the step of instance i that makes it p and makes the list of the class class
StepOf(i, p, class) ==
    /\ parsers' = [parsers EXCEPT ![i] = p]
    /\ class_patterns' = class
    /\ UNCHANGED <<vars_of_parser, vars_of_converter>>

\* lines 162-165 on instance i
ReturnUnparenthesisedOf(i) ==
    /\ parsers[i].pc = "call"
    /\ ~hasQueryParentheses(parsers[i].input)
    /\ StepOf(i, [parsers[i] EXCEPT
                    !.pc = "done",
                    !.result = unparenthesised_result(parsers[i].input)],
              class_patterns)

\* line 167 (_init_parsing) and lines 169-175 on instance i
InitParsingOf(i) ==
    /\ parsers[i].pc = "call"
    /\ hasQueryParentheses(parsers[i].input)
    /\ StepOf(i, [parsers[i] EXCEPT
                    !.pc = "scan",
                    !.current_index = 0,
                    !.scan = FreshScan(parsers[i].input),
                    !.own_patterns = @ \/ init_parsing_assigns_patterns],
              class_patterns)

\* one turn of the loop of lines 178-208 on instance i; what it appends goes
\* to the list self._patterns stands for
ScanCharacterOf(i) ==
    /\ parsers[i].pc = "scan"
    /\ parsers[i].current_index < Len(parsers[i].scan.query)
    /\ LET p == parsers[i]
           after == ScanCharacter([p.scan EXCEPT !.patterns = patterns_of(p)],
                                  p.current_index)
       IN  IF after.raised # ""
           THEN StepOf(i, [p EXCEPT !.pc = "error", !.error = after.raised],
                       class_patterns)
           ELSE IF p.own_patterns
           THEN StepOf(i, [p EXCEPT !.scan = after, !.current_index = @ + 1],
                       class_patterns)
           ELSE StepOf(i, [p EXCEPT !.scan = [after EXCEPT !.patterns = << >>],
                                    !.current_index = @ + 1],
                       after.patterns)

\* lines 211-217 on instance i: _append_last_pattern appends to the list
\* self._patterns stands for and, where it drops the last element (line 351),
\* assigns the instance a list of its own
AppendLastPatternOf(i) ==
    /\ parsers[i].pc = "scan"
    /\ parsers[i].current_index = Len(parsers[i].scan.query)
    /\ LET p == parsers[i]
           s == p.scan
           appended == append_pattern(append_preceding_operator(patterns_of(p), s.ops),
                                      s.query, s.beginning, Len(s.query), s.ops)
           last == append_last_pattern(patterns_of(p), s.query, s.beginning,
                                       Len(s.query), s.ops)
           own == p.own_patterns \/ last # appended
           class == IF p.own_patterns THEN class_patterns ELSE appended
           left == [p EXCEPT !.own_patterns = own,
                             !.scan.patterns = IF own THEN last ELSE << >>]
       IN  IF is_mismatched_end(s.inside_parentheses)
           THEN StepOf(i, [left EXCEPT !.pc = "error",
                                       !.error = error_message_mismatched_parentheses],
                       class)
           ELSE StepOf(i, [left EXCEPT !.pc = "done", !.result = last], class)

NextConcurrent ==
    \E i \in Instances :
        \/ ReturnUnparenthesisedOf(i)
        \/ InitParsingOf(i)
        \/ ScanCharacterOf(i)
        \/ AppendLastPatternOf(i)

SpecConcurrent == InitConcurrent /\ [][NextConcurrent]_vars

-----------------------------------------------------------------------------
(* SpiresToInvenioSyntaxConverter: the regular expressions, read character *)
(* by character                                                            *)

\* the value None
None == <<"None">>

\* does the lower-case text literal match s at position i under re.IGNORECASE
LiteralAt(s, i, literal) ==
    /\ i >= 0
    /\ i + Len(literal) <= Len(s)
    /\ \A k \in 1..Len(literal) : Lower(At(s, i + k - 1)) = literal[k]

\* the end of the longest match of \s* at position i
RECURSIVE SpaceRunEnd(_, _)
SpaceRunEnd(s, i) ==
    IF i < Len(s) /\ isspace(At(s, i)) THEN SpaceRunEnd(s, i + 1) ELSE i

\* the end of the longest match of \w* at position i
RECURSIVE WordRunEnd(_, _)
WordRunEnd(s, i) ==
    IF i < Len(s) /\ IsWordChar(At(s, i)) THEN WordRunEnd(s, i + 1) ELSE i

\* the end of the longest match of \.? at position i
DotEnd(s, i) == IF i < Len(s) /\ At(s, i) = "." THEN i + 1 ELSE i

combining_keywords == {<<"f", "i", "n", "d">>, <<"a", "n", "d">>, <<"o", "r">>, <<"n", "o", "t">>}

\* (?= and | or | not |$) at position i
FollowedByCombiner(s, i) ==
    \/ i = Len(s)
    \/ \E w \in {<<" ", "a", "n", "d", " ">>, <<" ", "o", "r", " ">>, <<" ", "n", "o", "t", " ">>} : LiteralAt(s, i, w)

\* (?!and |or |not ) at position i
NotAtCombiner(s, i) ==
    ~\E w \in {<<"a", "n", "d", " ">>, <<"o", "r", " ">>, <<"n", "o", "t", " ">>} : LiteralAt(s, i, w)

\* the end of the match of .*?\b(?= and | or | not |$) that starts at position
\* i, or -1: the lazy content stops at the first word boundary that is
\* followed by a combining keyword or by the end of the text
LazyContentEnd(s, i) ==
    LET ends == {e \in i..Len(s) : WordBoundary(s, e) /\ FollowedByCombiner(s, e)}
    IN  IF ends = {} THEN -1 ELSE Minimum(ends)

-----------------------------------------------------------------------------
(* _convert_spires_date_before_to_invenio_span_query and                   *)
(* _convert_spires_date_after_to_invenio_span_query                        *)

before_words == {<<"b", "e", "f", "o", "r", "e">>, <<"<">>}

after_words == {<<"a", "f", "t", "e", "r">>, <<">">>}

\* the end of the match of \b(d|date)\b\s*(words)\s*(?P<year>\d{4})\b at
\* position i, or -1; the year is the last four characters of the match
re_date_match(s, i, words) ==
    LET ds == {d \in {<<"d">>, <<"d", "a", "t", "e">>} :
                   LiteralAt(s, i, d) /\ WordBoundary(s, i + Len(d))}
    IN  IF ~WordBoundary(s, i) \/ ds = {} THEN -1
        ELSE LET j == SpaceRunEnd(s, i + Len(CHOOSE d \in ds : TRUE))
                 ws == {w \in words : LiteralAt(s, j, w)}
             IN  IF ws = {} THEN -1
                 ELSE LET y == SpaceRunEnd(s, j + Len(CHOOSE w \in ws : TRUE))
                      IN  IF /\ y + 4 <= Len(s)
                             /\ \A k \in 0..3 : At(s, y + k) \in Digits
                             /\ WordBoundary(s, y + 4)
                          THEN y + 4
                          ELSE -1

date_before_replacement(year) == <<"y", "e", "a", "r", ":", "0", "-", ">">> \o year

date_after_replacement(year) == <<"y", "e", "a", "r", ":">> \o year \o <<"-", ">", "9", "9", "9", "9">>

RECURSIVE DateSubFrom(_, _, _)
DateSubFrom(s, i, after) ==
    LET words == IF after THEN after_words ELSE before_words
        starts == {k \in i..(Len(s) - 1) : re_date_match(s, k, words) # -1}
    IN  IF starts = {} THEN Slice(s, i, Len(s))
        ELSE LET k == Minimum(starts)
                 e == re_date_match(s, k, words)
             IN  Slice(s, i, k)
                 \o (IF after THEN date_after_replacement(Slice(s, e - 4, e))
                              ELSE date_before_replacement(Slice(s, e - 4, e)))
                 \o DateSubFrom(s, e, after)

convert_spires_date_before_unconverted(q) == q

convert_spires_date_before_to_invenio_span_query(q) == DateSubFrom(q, 0, FALSE)

convert_spires_date_after_to_invenio_span_query(q) == DateSubFrom(q, 0, TRUE)

-----------------------------------------------------------------------------
(* _replace_spires_keywords_with_invenio_keywords *)

\* The entries of the table whose keyword is a word of the queries of the
\* model.  ' ea ' and ' exact-author ' are written twice in the dictionary,
\* at lines 458-459 with ' exactauthor:' and at lines 534-535 with ' ': the
\* later entry is the one the dictionary keeps.
SPIRES_TO_INVENIO_KEYWORDS_MATCHINGS_with_author_as_noise ==
    (<<" ", "d", "a", "t", "e", " ">> :> <<" ", "2", "6", "9", "_", "_", "c", ":">>) @@ (<<" ", "d", " ">> :> <<" ", "2", "6", "9", "_", "_", "c", ":">>) @@
    (<<" ", "a", " ">> :> <<" ">>) @@ (<<" ", "a", "u", "t", "h", "o", "r", " ">> :> <<" ", "a", "u", "t", "h", "o", "r", ":">>) @@
    (<<" ", "j", " ">> :> <<" ", "j", "o", "u", "r", "n", "a", "l", ":">>) @@ (<<" ", "k", " ">> :> <<" ", "k", "e", "y", "w", "o", "r", "d", ":">>) @@
    (<<" ", "r", " ">> :> <<" ", "r", "e", "p", "o", "r", "t", "n", "u", "m", "b", "e", "r", ":">>) @@
    (<<" ", "t", " ">> :> <<" ", "t", "i", "t", "l", "e", ":">>) @@ (<<" ", "t", "i", "t", "l", "e", " ">> :> <<" ", "t", "i", "t", "l", "e", ":">>) @@
    (<<" ", "e", " ">> :> <<" ">>) @@
    (<<" ", "e", "a", " ">> :> <<" ">>) @@ (<<" ", "e", "x", "a", "c", "t", "-", "a", "u", "t", "h", "o", "r", " ">> :> <<" ">>)

SPIRES_TO_INVENIO_KEYWORDS_MATCHINGS ==
    (<<" ", "d", "a", "t", "e", " ">> :> <<" ", "2", "6", "9", "_", "_", "c", ":">>) @@ (<<" ", "d", " ">> :> <<" ", "2", "6", "9", "_", "_", "c", ":">>) @@
    (<<" ", "a", " ">> :> <<" ", "a", "u", "t", "h", "o", "r", ":">>) @@ (<<" ", "a", "u", "t", "h", "o", "r", " ">> :> <<" ", "a", "u", "t", "h", "o", "r", ":">>) @@
    (<<" ", "j", " ">> :> <<" ", "j", "o", "u", "r", "n", "a", "l", ":">>) @@ (<<" ", "k", " ">> :> <<" ", "k", "e", "y", "w", "o", "r", "d", ":">>) @@
    (<<" ", "r", " ">> :> <<" ", "r", "e", "p", "o", "r", "t", "n", "u", "m", "b", "e", "r", ":">>) @@
    (<<" ", "t", " ">> :> <<" ", "t", "i", "t", "l", "e", ":">>) @@ (<<" ", "t", "i", "t", "l", "e", " ">> :> <<" ", "t", "i", "t", "l", "e", ":">>) @@
    (<<" ", "e", " ">> :> <<" ">>) @@
    (<<" ", "e", "a", " ">> :> <<" ">>) @@ (<<" ", "e", "x", "a", "c", "t", "-", "a", "u", "t", "h", "o", "r", " ">> :> <<" ">>)

Maximum(S) == CHOOSE x \in S : \A y \in S : x >= y

\* the end of the match of
\* \b((?<=find)|(?<=and)|(?<=or)|(?<=not))\s* + old_keyword + \b
\* at position i, or -1
re_keyword_match(s, i, old_keyword) ==
    IF /\ WordBoundary(s, i)
       /\ \E w \in combining_keywords : LiteralAt(s, i - Len(w), w)
    THEN LET ks == {k \in i..SpaceRunEnd(s, i) :
                        /\ LiteralAt(s, k, old_keyword)
                        /\ WordBoundary(s, k + Len(old_keyword))}
         IN  IF ks = {} THEN -1 ELSE Maximum(ks) + Len(old_keyword)
    ELSE -1

RECURSIVE KeywordSubFrom(_, _, _, _)
KeywordSubFrom(s, i, old_keyword, new_keyword) ==
    LET starts == {k \in i..(Len(s) - 1) : re_keyword_match(s, k, old_keyword) # -1}
    IN  IF starts = {} THEN Slice(s, i, Len(s))
        ELSE LET k == Minimum(starts)
             IN  Slice(s, i, k) \o new_keyword
                 \o KeywordSubFrom(s, re_keyword_match(s, k, old_keyword),
                                   old_keyword, new_keyword)

replace_keyword(q, old_keyword, new_keyword) ==
    KeywordSubFrom(q, 0, old_keyword, new_keyword)

\* the keywords of the table in the order keys of the loop of line 836
RECURSIVE replace_all_spires_keywords_in_string(_, _)
replace_all_spires_keywords_in_string(q, keys) ==
    IF keys = << >> THEN q
    ELSE replace_all_spires_keywords_in_string(
             replace_keyword(q, Head(keys),
                             SPIRES_TO_INVENIO_KEYWORDS_MATCHINGS[Head(keys)]),
             Tail(keys))

RECURSIVE ReplaceOutsideQuotesFrom(_, _, _)
ReplaceOutsideQuotesFrom(q, current_position, keys) ==
    LET match == re_quotes_match(q, current_position)
    IN  IF match = << >>
        THEN replace_all_spires_keywords_in_string(
                 Slice(q, current_position, Len(q)), keys)
        ELSE replace_all_spires_keywords_in_string(
                 Slice(q, current_position, match[1]), keys)
             \o Slice(q, match[1], match[2])
             \o ReplaceOutsideQuotesFrom(q, match[2], keys)

replace_spires_keywords_with_invenio_keywords(q, keys) ==
    ReplaceOutsideQuotesFrom(q, 0, keys)

\* the keywords of the table that occur in q
KeywordsIn(q) ==
    {k \in DOMAIN SPIRES_TO_INVENIO_KEYWORDS_MATCHINGS :
         \E i \in 0..Len(q) : LiteralAt(q, i, k)}

\* iteritems() yields the entries of the dictionary in an order the language
\* does not fix.  A keyword that does not occur in the query replaces nothing
\* wherever it comes, and a replacement never brings a keyword into the text
\* that did not occur in it, so the orders of the keywords that occur in the
\* query are all the orders that can give different results.
IterationOrders(q) ==
    LET S == KeywordsIn(q)
    IN  {o \in [1..Cardinality(S) -> S] : \A k \in S : \E n \in DOMAIN o : o[n] = k}

-----------------------------------------------------------------------------
(* _convert_spires_author_search_to_invenio_author_search *)

NoMatch == [end |-> -1]

\* the end of the match of \bauthor:\s* at position i, or -1
AuthorKeywordEnd(s, i) ==
    IF WordBoundary(s, i) /\ LiteralAt(s, i, <<"a", "u", "t", "h", "o", "r", ":">>)
    THEN SpaceRunEnd(s, i + 7)
    ELSE -1

\* author:ellis, jacqueline
AuthorAlternative1(s, i) ==
    LET a == AuthorKeywordEnd(s, i)
        b == WordRunEnd(s, a)
        c == SpaceRunEnd(s, b + 1)
        e == WordRunEnd(s, c)
    IN  IF /\ a # -1 /\ b > a
           /\ b < Len(s) /\ At(s, b) = ","
           /\ e - c >= 3
           /\ FollowedByCombiner(s, e)
        THEN [start |-> i, end |-> e, alternative |-> 1, name |-> Slice(s, c, e),
              middle_name |-> None, surname |-> Slice(s, a, b)]
        ELSE NoMatch

\* author:jacqueline ellis
AuthorAlternative2(s, i) ==
    LET a == AuthorKeywordEnd(s, i)
        b == WordRunEnd(s, a)
        c == SpaceRunEnd(s, b)
        e == WordRunEnd(s, c)
    IN  IF /\ a # -1 /\ b > a
           /\ c > b /\ NotAtCombiner(s, c)
           /\ e > c
           /\ FollowedByCombiner(s, e)
        THEN [start |-> i, end |-> e, alternative |-> 2, name |-> Slice(s, a, b),
              middle_name |-> None, surname |-> Slice(s, c, e)]
        ELSE NoMatch

\* author:ellis, j.
AuthorAlternative3(s, i) ==
    LET a == AuthorKeywordEnd(s, i)
        b == WordRunEnd(s, a)
        c == SpaceRunEnd(s, b + 1)
        e == WordRunEnd(s, c)
    IN  IF /\ a # -1 /\ b > a
           /\ b < Len(s) /\ At(s, b) = ","
           /\ e - c \in {1, 2}
           /\ FollowedByCombiner(s, DotEnd(s, e))
        THEN [start |-> i, end |-> DotEnd(s, e), alternative |-> 3, name |-> Slice(s, c, e),
              middle_name |-> None, surname |-> Slice(s, a, b)]
        ELSE NoMatch

\* author: ellis, j. r.
AuthorAlternative4(s, i) ==
    LET a == AuthorKeywordEnd(s, i)
        b == WordRunEnd(s, a)
        c == SpaceRunEnd(s, b + 1)
        e == WordRunEnd(s, c)
        g == SpaceRunEnd(s, DotEnd(s, e))
        h == WordRunEnd(s, g)
    IN  IF /\ a # -1 /\ b > a
           /\ b < Len(s) /\ At(s, b) = ","
           /\ e > c
           /\ g > DotEnd(s, e) /\ NotAtCombiner(s, g)
           /\ h > g
        THEN [start |-> i, end |-> DotEnd(s, h), alternative |-> 4, name |-> Slice(s, c, e),
              middle_name |-> Slice(s, g, h), surname |-> Slice(s, a, b)]
        ELSE NoMatch

\* author j. r. ellis
AuthorAlternative5(s, i) ==
    LET a == AuthorKeywordEnd(s, i)
        b == WordRunEnd(s, a)
        g == SpaceRunEnd(s, DotEnd(s, b))
        h == WordRunEnd(s, g)
        l == SpaceRunEnd(s, DotEnd(s, h))
        m == WordRunEnd(s, l)
    IN  IF /\ a # -1 /\ b > a
           /\ g > DotEnd(s, b) /\ NotAtCombiner(s, g)
           /\ h > g
           /\ l > DotEnd(s, h) /\ NotAtCombiner(s, l)
           /\ m > l
        THEN [start |-> i, end |-> DotEnd(s, m), alternative |-> 5, name |-> Slice(s, a, b),
              middle_name |-> Slice(s, g, h), surname |-> Slice(s, l, m)]
        ELSE NoMatch

\* the match of _re_author_match at position i: the first alternative that
\* matches, or NoMatch
re_author_match(s, i) ==
    IF AuthorAlternative1(s, i) # NoMatch THEN AuthorAlternative1(s, i)
    ELSE IF AuthorAlternative2(s, i) # NoMatch THEN AuthorAlternative2(s, i)
    ELSE IF AuthorAlternative3(s, i) # NoMatch THEN AuthorAlternative3(s, i)
    ELSE IF AuthorAlternative4(s, i) # NoMatch THEN AuthorAlternative4(s, i)
    ELSE AuthorAlternative5(s, i)

\* match.group(group + alternative) if the groups of every alternative were
\* those of the alternative that matched
Group_of_any_alternative(match, alternative, group) == match[group]

\* match.group(group + alternative): None unless the alternative matched
Group(match, alternative, group) ==
    IF match.alternative = alternative THEN match[group] ELSE None

AUTHOR_KEYWORD == <<"a", "u", "t", "h", "o", "r", ":">>

dot_symbol(inspire_site) == IF inspire_site THEN <<".">> ELSE <<SP>>

create_author_search_pattern_or_none(author_name, author_middle_name, author_surname, inspire_site) ==
    IF author_surname = << >> \/ author_surname = None THEN << >>
    ELSE None

create_author_search_pattern(author_name, author_middle_name, author_surname, inspire_site) ==
    LET dot == dot_symbol(inspire_site)
        quoted == AUTHOR_KEYWORD \o <<DQ>> \o author_surname \o <<",", " ">>
    IN  IF author_surname = << >> \/ author_surname = None THEN << >>
        ELSE IF author_middle_name # None /\ author_middle_name # << >>
        THEN quoted \o author_name \o <<"*", " ">> \o author_middle_name \o <<"*", DQ>>
             \o (IF Len(author_name) > 1
                 THEN <<" ", "o", "r", " ">> \o quoted \o Slice(author_name, 0, 1) \o dot
                      \o author_middle_name \o dot \o <<DQ>>
                      \o <<" ", "o", "r", " ">> \o quoted \o Slice(author_name, 0, 2) \o dot
                      \o author_middle_name \o dot \o <<DQ>>
                 ELSE << >>)
        ELSE IF author_name = << >> \/ author_name = None
        THEN AUTHOR_KEYWORD \o author_surname
        ELSE IF Len(author_name) = 1
        THEN quoted \o author_name \o <<"*", DQ>>
        ELSE quoted \o author_name \o <<DQ>>
             \o <<" ", "o", "r", " ">> \o quoted \o Slice(author_name, 0, 1) \o dot \o <<"*", DQ>>
             \o <<" ", "o", "r", " ">> \o quoted \o Slice(author_name, 0, 1) \o <<DQ>>
             \o <<" ", "o", "r", " ">> \o quoted \o Slice(author_name, 0, 2) \o dot \o <<"*", DQ>>
             \o <<" ", "o", "r", " ">> \o quoted \o Slice(author_name, 0, 2) \o <<DQ>>
             \o <<" ", "o", "r", " ">> \o quoted \o author_name \o <<SP, "*", DQ>>

\* the five calls of lines 736-740 for one match
AuthorPatterns(match, inspire_site) ==
    << create_author_search_pattern(Group(match, 1, "name"), None,
                                    Group(match, 1, "surname"), inspire_site),
       create_author_search_pattern(Group(match, 2, "name"), None,
                                    Group(match, 2, "surname"), inspire_site),
       create_author_search_pattern(Group(match, 3, "name"), None,
                                    Group(match, 3, "surname"), inspire_site),
       create_author_search_pattern(Group(match, 4, "name"),
                                    Group(match, 4, "middle_name"),
                                    Group(match, 4, "surname"), inspire_site),
       create_author_search_pattern(Group(match, 5, "name"),
                                    Group(match, 5, "middle_name"),
                                    Group(match, 5, "surname"), inspire_site) >>

\* the matches of finditer at and after position i, in order
RECURSIVE AuthorMatchesFrom(_, _)
AuthorMatchesFrom(s, i) ==
    LET starts == {k \in i..(Len(s) - 1) : re_author_match(s, k) # NoMatch}
    IN  IF starts = {} THEN << >>
        ELSE LET match == re_author_match(s, Minimum(starts))
             IN  <<match>> \o AuthorMatchesFrom(s, match.end)

\* lines 731-746 for the matches still to be processed: the text, or None
\* where a call of line 736-740 returned None and the concatenation raises
RECURSIVE AuthorResultFrom(_, _, _, _)
AuthorResultFrom(q, matches, current_position, inspire_site) ==
    IF matches = << >> THEN Slice(q, current_position, Len(q))
    ELSE LET match == Head(matches)
             ps == AuthorPatterns(match, inspire_site)
             rest == AuthorResultFrom(q, Tail(matches), match.end, inspire_site)
         IN  IF (\E k \in 1..5 : ps[k] = None) \/ rest = None THEN None
             ELSE Slice(q, current_position, match.start)
                  \o ps[1] \o ps[2] \o ps[3] \o ps[4] \o ps[5] \o rest

convert_spires_author_search_to_invenio_author_search(q, inspire_site) ==
    AuthorResultFrom(q, AuthorMatchesFrom(q, 0), 0, inspire_site)

-----------------------------------------------------------------------------
(* _convert_spires_exact_author_search_to_invenio_author_search *)

\* the end of the match of
\* \bexactauthor:(?P<author_name>.*?\b)(?= and | or | not |$)
\* at position i, or -1; the name starts at i + 12
re_exact_author_match(s, i) ==
    IF WordBoundary(s, i) /\ LiteralAt(s, i, <<"e", "x", "a", "c", "t", "a", "u", "t", "h", "o", "r", ":">>)
    THEN LazyContentEnd(s, i + 12)
    ELSE -1

RECURSIVE ExactAuthorSubFrom(_, _)
ExactAuthorSubFrom(s, i) ==
    LET starts == {k \in i..(Len(s) - 1) : re_exact_author_match(s, k) # -1}
    IN  IF starts = {} THEN Slice(s, i, Len(s))
        ELSE LET k == Minimum(starts)
                 e == re_exact_author_match(s, k)
             IN  Slice(s, i, k)
                 \o AUTHOR_KEYWORD \o <<DQ>> \o Slice(s, k + 12, e) \o <<DQ>>
                 \o ExactAuthorSubFrom(s, e)

convert_spires_exact_author_search_to_invenio_author_search(q) ==
    ExactAuthorSubFrom(q, 0)

-----------------------------------------------------------------------------
(* _convert_spires_truncation_to_invenio_truncation *)

convert_spires_truncation_kept(q) == q

convert_spires_truncation_to_invenio_truncation(q) ==
    [k \in DOMAIN q |-> IF q[k] = "#" THEN "*" ELSE q[k]]

-----------------------------------------------------------------------------
(* _expand_search_patterns *)

\* the match of
\* \b(find|and|or|not)\s+(title:|keyword:)(.*?\b)(?= and | or | not |$)
\* at position i, or NoMatch
re_search_term_pattern_match(s, i) ==
    LET ops == {w \in combining_keywords : LiteralAt(s, i, w)}
        j == i + Len(CHOOSE w \in ops : TRUE)
        k == SpaceRunEnd(s, j)
        terms == {t \in {<<"t", "i", "t", "l", "e", ":">>, <<"k", "e", "y", "w", "o", "r", "d", ":">>} : LiteralAt(s, k, t)}
        c == k + Len(CHOOSE t \in terms : TRUE)
        e == LazyContentEnd(s, c)
    IN  IF /\ WordBoundary(s, i) /\ ops # {}
           /\ k > j /\ terms # {}
           /\ e # -1
        THEN [end |-> e, combine_operator |-> Slice(s, i, j),
              search_term |-> Slice(s, k, c), search_content |-> Slice(s, c, e)]
        ELSE NoMatch

\* str.lower()
lower(s) == [k \in DOMAIN s |-> Lower(s[k])]

\* _re_split_pattern.split(s): s cut at every run of white space (the re
\* module of the Python 2 this code is written for never splits on an empty
\* match)
RECURSIVE SplitFrom(_, _, _)
SplitFrom(s, i, piece) ==
    IF i >= Len(s) THEN <<piece>>
    ELSE IF isspace(At(s, i))
         THEN <<piece>> \o SplitFrom(s, SpaceRunEnd(s, i), << >>)
         ELSE SplitFrom(s, i + 1, Append(piece, At(s, i)))

re_split_pattern_split(s) == SplitFrom(s, 0, << >>)

\* the loop of lines 692-697
RECURSIVE ExpandWords(_, _, _, _)
ExpandWords(words, combine_operator, search_term, res) ==
    IF words = << >> THEN res
    ELSE IF lower(combine_operator) = <<"f", "i", "n", "d">>
         THEN ExpandWords(Tail(words), <<"a", "n", "d">>, search_term,
                          <<"f", "i", "n", "d", " ">> \o search_term \o Head(words))
         ELSE ExpandWords(Tail(words), combine_operator, search_term,
                          res \o <<SP>> \o combine_operator \o <<SP>>
                              \o search_term \o Head(words))

\* lines 693-695 left out: the first word is combined as the others are
create_replacement_pattern_without_find(match) ==
    strip(ExpandWords(re_split_pattern_split(strip(match.search_content)),
                      <<"a", "n", "d">>, match.search_term, << >>))

\* lines 686-698
create_replacement_pattern(match) ==
    strip(ExpandWords(re_split_pattern_split(strip(match.search_content)),
                      match.combine_operator, match.search_term, << >>))

RECURSIVE ExpandSubFrom(_, _)
ExpandSubFrom(s, i) ==
    LET starts == {k \in i..(Len(s) - 1) : re_search_term_pattern_match(s, k) # NoMatch}
    IN  IF starts = {} THEN Slice(s, i, Len(s))
        ELSE LET k == Minimum(starts)
                 match == re_search_term_pattern_match(s, k)
             IN  Slice(s, i, k) \o create_replacement_pattern(match)
                 \o ExpandSubFrom(s, match.end)

expand_search_patterns(q) == ExpandSubFrom(q, 0)

-----------------------------------------------------------------------------
(* The queries given to convert_query *)

MaxValueWords == 2

find_keywords == {<<"f", "i", "n", "d", " ">>, <<"F", "I", "N", "D", " ">>}

combiners == {<<" ", "a", "n", "d", " ">>, <<" ", "o", "r", " ">>, <<" ", "n", "o", "t", " ">>, <<" ", "A", "N", "D", " ">>}

\* the words of a value: plain, with the truncation sign, and a quoted span
ValueWords == {<<"x">>, <<"y">>, <<"y", "#">>, <<DQ, "x", " ", "y", DQ>>}

RECURSIVE JoinWords(_, _)
JoinWords(ws, separator) ==
    IF ws = << >> THEN << >>
    ELSE IF Len(ws) = 1 THEN Head(ws)
    ELSE Head(ws) \o separator \o JoinWords(Tail(ws), separator)

Values == {JoinWords(ws, <<SP>>) : ws \in UNION {[1..n -> ValueWords] : n \in 1..MaxValueWords}}

FieldKeywords == {<<"t", " ">>, <<"T", " ">>, <<"k", " ">>, <<"t", "i", "t", "l", "e", ":">>, <<"j", " ">>, <<"e", " ", "t", " ">>}

FieldClauses == {k \o v : k \in FieldKeywords, v \in Values}

AuthorKeywords ==
    {<<"a", " ">>, <<"A", " ">>, <<"e", " ", "a", " ">>, <<"a", "u", "t", "h", "o", "r", ":">>, <<"e", "a", " ">>, <<"e", "x", "a", "c", "t", "-", "a", "u", "t", "h", "o", "r", " ">>, <<"e", "x", "a", "c", "t", "a", "u", "t", "h", "o", "r", ":">>}

AuthorNames ==
    {<<"e", "l", "l", "i", "s">>, <<"e", "l", "l", "i", "s", ",", " ", "j">>, <<"e", "l", "l", "i", "s", ",", " ", "j", ".">>, <<"e", "l", "l", "i", "s", ",", " ", "j", "o">>, <<"e", "l", "l", "i", "s", ",", " ", "j", "o", "h", "n">>,
     <<"j", "o", "h", "n", " ", "e", "l", "l", "i", "s">>, <<"e", "l", "l", "i", "s", ",", " ", "j", " ", "r">>, <<"j", " ", "r", " ", "e", "l", "l", "i", "s">>, <<"j", ".", " ", "r", ".", " ", "e", "l", "l", "i", "s">>}

AuthorClauses == {k \o n : k \in AuthorKeywords, n \in AuthorNames}

DateKeywords == {<<"d">>, <<"d", "a", "t", "e">>, <<"D", "A", "T", "E">>}

DateWords == {<<" ", "b", "e", "f", "o", "r", "e", " ">>, <<" ", "B", "E", "F", "O", "R", "E", " ">>, <<"<">>, <<" ", "<", " ">>, <<" ", "a", "f", "t", "e", "r", " ">>, <<" ", ">", " ">>, <<" ">>}

Years == {<<"1", "9", "9", "0">>, <<"1", "9", "9">>}

DateClauses == {k \o w \o y : k \in DateKeywords, w \in DateWords, y \in Years}

Clauses == FieldClauses \cup AuthorClauses \cup DateClauses

FirstClauses == {<<"t", " ", "x">>, <<"a", " ", "e", "l", "l", "i", "s">>}

LastClauses == {<<" ", "a", "n", "d", " ", "t", " ", "x", " ", "y">>, <<" ", "n", "o", "t", " ", "a", " ", "e", "l", "l", "i", "s">>}

SpiresQueries ==
    {f \o c : f \in find_keywords, c \in Clauses \cup {<< >>}}
    \cup {f \o b \o o \o c :
              f \in find_keywords, b \in FirstClauses, o \in combiners, c \in Clauses}
    \cup {f \o c \o l : f \in find_keywords, c \in Clauses, l \in LastClauses}

\* queries that do not start with "find " in any case
InvenioQueries ==
    Clauses
    \cup {<<"f", "i", "n", "d">> \o c : c \in FieldClauses}
    \cup {<<SP>> \o f \o c : f \in find_keywords, c \in FieldClauses}
    \cup {<< >>, <<"f", "i", "n", "d">>, <<"a", "u", "t", "h", "o", "r", ":", "e", "l", "l", "i", "s", " ", "a", "n", "d", " ", "t", "i", "t", "l", "e", ":", "x", "#">>}

\* two quoted spans, the first of them empty or not, around a clause
FirstSpans == {<<DQ, DQ>>, <<SQ, SQ>>, <<DQ, "z", DQ>>}

SecondSpans ==
    {<<DQ, "y", DQ>>, <<SQ, "y", SQ>>,
     <<DQ, "x", " ", "a", "n", "d", " ", "k", " ", "y", DQ>>}

SpanQuery(first, second) ==
    <<"f", "i", "n", "d", " ", "t", " ">> \o first
        \o <<" ", "a", "n", "d", " ", "k", " ", "x", " ", "a", "n", "d", " ", "t", " ">>
        \o second

QuotedSpanQueries == {SpanQuery(a, b) : a \in FirstSpans, b \in SecondSpans}

ConvertQueries == SpiresQueries \cup InvenioQueries \cup QuotedSpanQueries

-----------------------------------------------------------------------------
(* convert_query *)

is_spires_query_without_space(q) == LiteralAt(q, 0, <<"f", "i", "n", "d">>)

\* query.lower().startswith("find ")
is_spires_query(q) == LiteralAt(q, 0, <<"f", "i", "n", "d", " ">>)

InitConvert ==
    /\ InitialState({<< >>})
    /\ spires_query \in ConvertQueries
    /\ converted_query = spires_query
    /\ convert_pc = "call"
    /\ CFG_INSPIRE_SITE \in BOOLEAN
    /\ NoInstances

\* the assignment of a stage's result to query, and the stage to run next
ConvertStep(to, converted) ==
    /\ converted_query' = converted
    /\ convert_pc' = to
    /\ UNCHANGED <<vars_of_parser, spires_query, CFG_INSPIRE_SITE, vars_of_instances>>

\* lines 627 and 646: the query is not a SPIRES query
ReturnUnconverted ==
    /\ convert_pc = "call"
    /\ ~is_spires_query(converted_query)
    /\ ConvertStep("done", converted_query)

\* lines 627 and 631
ConvertDateBefore ==
    /\ convert_pc = "call"
    /\ is_spires_query(converted_query)
    /\ ConvertStep("date_after",
                   convert_spires_date_before_to_invenio_span_query(converted_query))

\* line 632
ConvertDateAfter ==
    /\ convert_pc = "date_after"
    /\ ConvertStep("keywords",
                   convert_spires_date_after_to_invenio_span_query(converted_query))

\* line 636
ReplaceKeywords ==
    /\ convert_pc = "keywords"
    /\ \E keys \in IterationOrders(converted_query) :
           ConvertStep("author",
                       replace_spires_keywords_with_invenio_keywords(converted_query, keys))

\* line 638
ConvertAuthorSearch ==
    /\ convert_pc = "author"
    /\ LET converted == convert_spires_author_search_to_invenio_author_search(
                            converted_query, CFG_INSPIRE_SITE)
       IN  IF converted = None
           THEN ConvertStep("raised", converted_query)
           ELSE ConvertStep("exact_author", converted)

\* line 639
ConvertExactAuthorSearch ==
    /\ convert_pc = "exact_author"
    /\ ConvertStep("truncation",
                   convert_spires_exact_author_search_to_invenio_author_search(converted_query))

\* line 640
ConvertTruncation ==
    /\ convert_pc = "truncation"
    /\ ConvertStep("expand",
                   convert_spires_truncation_to_invenio_truncation(converted_query))

\* line 641
ExpandSearchPatterns ==
    /\ convert_pc = "expand"
    /\ ConvertStep("strip", expand_search_patterns(converted_query))

\* lines 644 and 646
StripFind ==
    /\ convert_pc = "strip"
    /\ ConvertStep("done", Slice(converted_query, 5, Len(converted_query)))

NextConvert ==
    \/ ReturnUnconverted
    \/ ConvertDateBefore
    \/ ConvertDateAfter
    \/ ReplaceKeywords
    \/ ConvertAuthorSearch
    \/ ConvertExactAuthorSearch
    \/ ConvertTruncation
    \/ ExpandSearchPatterns
    \/ StripFind

SpecConvert == InitConvert /\ [][NextConvert]_vars

-----------------------------------------------------------------------------
(* Vocabulary of the properties *)

ContainsParenthesis(q) == \E i \in 1..Len(q) : q[i] \in {"(", ")"}

OperatorTokens == {<<o>> : o \in {"+", "|", "-"}}

Returned == pc = "done"

Raised(message) == pc = "error" /\ error = message /\ result = << >>

\* sub occurs in s as a contiguous run
Occurs(sub, s) ==
    \E i \in 0..(Len(s) - Len(sub)) : SubSeq(s, i + 1, i + Len(sub)) = sub

Count(s, c) == Cardinality({i \in 1..Len(s) : s[i] = c})

Without(s, cs) == \A i \in 1..Len(s) : s[i] \notin cs

\* the character before position i of s is a backslash
Escaped(s, i) == i > 0 /\ At(s, i - 1) = "\\"

\* the scan is at position current_index of a query it has not finished
AtCharacter == pc = "scan" /\ current_index < Len(query)

EllisQuery ==
    <<"e","l","l","i","s"," ","A","N","D"," ","(","m","u","o","n"," ","O","R"," ","k","a","o","n",")">>

-----------------------------------------------------------------------------
(* C1 - C10: parse_query *)

\* C1: when parse_query returns for a query with a parenthesis, the list has
\* even length, its elements at the even indexes 0, 2, ... are operator
\* symbols and its elements at the odd indexes are non-empty clauses.
C1_OperatorClausePairs ==
    (Returned /\ ContainsParenthesis(input)) =>
        /\ Len(result) % 2 = 0
        /\ \A k \in 1..Len(result) :
              IF k % 2 = 1 THEN result[k] \in OperatorTokens
                           ELSE result[k] # << >>

\* a text without quotes, or one double-quoted span
PlainOrQuoted(c) ==
    \/ Without(c, {DQ, SQ})
    \/ /\ Count(c, SQ) = 0
       /\ Count(c, DQ) = 2
       /\ Len(strip(c)) >= 2
       /\ Head(strip(c)) = DQ
       /\ strip(c)[Len(strip(c))] = DQ

\* a clause text C written without operator, parenthesis or escape
ClauseText(c) ==
    /\ Without(c, {"(", ")", "+", "|", "-", "\\"})
    /\ PlainOrQuoted(c)
    /\ strip(c) # << >>

\* a group content G written without parenthesis, operator, quote or escape
GroupText(g) ==
    /\ Without(g, {"(", ")", "+", "|", "-", DQ, SQ, "\\"})
    /\ strip(g) # << >>

\* C2: for the inputs "C (G)" and "(G1) C (G2)" without operator words, the
\* default operator '+' is emitted between the clause C and the clause of the
\* group after it, for every non-empty C.
C2_DefaultOperatorBeforeGroup ==
    (Returned /\ query = input) =>
        \A k \in 1..Len(input) :
            LET c == SubSeq(input, 1, k - 1)
                g == SubSeq(input, k + 1, Len(input) - 1)
            IN  /\ (/\ input[k] = "("
                    /\ input[Len(input)] = ")"
                    /\ ClauseText(c)
                    /\ GroupText(g))
                    => result = <<<<"+">>, strip(c), <<"+">>, strip(g)>>
                /\ \A j \in 1..(k - 1) :
                      LET g1 == SubSeq(input, 2, j - 1)
                          c2 == SubSeq(input, j + 1, k - 1)
                      IN  (/\ input[1] = "("
                           /\ input[j] = ")"
                           /\ input[k] = "("
                           /\ input[Len(input)] = ")"
                           /\ GroupText(g1)
                           /\ ClauseText(c2)
                           /\ GroupText(g))
                          => result = <<<<"+">>, strip(g1), <<"+">>, strip(c2),
                                        <<"+">>, strip(g)>>

\* C3: a query without '(' and ')' is returned as ['+', query], the query
\* unchanged, and nothing is raised.
C3_Unparenthesised ==
    ~ContainsParenthesis(input) =>
        /\ pc \in {"call", "done"}
        /\ Returned => result = <<<<"+">>, input>>

C3_Witness ==
    /\ Returned
    /\ ~ContainsParenthesis(input)
    /\ Len(input) > 1
    /\ input[1] = " "
    /\ Occurs(<<"a", "n", "d">>, input)
    /\ result = <<<<"+">>, input>>

\* C4: nothing is emitted while the scan stays inside a parenthesized group,
\* and the closing parenthesis emits the whole text after the opening
\* parenthesis (trimmed, and only when it is not empty) as one clause;
\* "ellis AND (muon OR kaon)" gives ['+', 'ellis', '+', 'muon | kaon'].
C4_GroupIsOneClause ==
    [][ /\ (AtCharacter /\ inside_parentheses /\ inside_parentheses' /\ pc' = "scan")
            => patterns' = patterns
        /\ (AtCharacter /\ inside_parentheses /\ ~inside_parentheses' /\ pc' = "scan")
            => LET group == strip(Slice(query, pattern_beginning, current_index))
               IN  /\ pattern_beginning >= 1
                   /\ At(query, pattern_beginning - 1) = "("
                   /\ character = ")"
                   /\ patterns' = IF group # << >> THEN Append(patterns, group)
                                                   ELSE patterns
        /\ (input = EllisQuery /\ pc' = "done")
            => result' = << <<"+">>, <<"e","l","l","i","s">>, <<"+">>,
                            <<"m","u","o","n"," ","|"," ","k","a","o","n">> >>
      ]_vars

C4_Witness ==
    /\ Returned
    /\ input = EllisQuery
    /\ result = << <<"+">>, <<"e","l","l","i","s">>, <<"+">>,
                   <<"m","u","o","n"," ","|"," ","k","a","o","n">> >>

\* C5: an unescaped ')' scanned outside quotes and outside parentheses, and
\* the end of the input reached inside parentheses, raise "Mismatched
\* parenthesis." and no list is returned; so do "a (b" and "a) b".
C5_MismatchedParentheses ==
    [][ /\ (/\ AtCharacter
            /\ character = ")"
            /\ ~Escaped(query, current_index)
            /\ ~inside_quotes
            /\ ~inside_parentheses)
            => Raised("Mismatched parenthesis.")'
        /\ (pc = "scan" /\ current_index = Len(query) /\ inside_parentheses)
            => Raised("Mismatched parenthesis.")'
        /\ (/\ input \in {<<"a", " ", "(", "b">>, <<"a", ")", " ", "b">>}
            /\ pc' \in {"done", "error"})
            => Raised("Mismatched parenthesis.")'
      ]_vars

C5_Witness ==
    /\ Raised("Mismatched parenthesis.")
    /\ current_index < Len(query)
    /\ At(query, current_index) = ")"
    /\ current_index > 0
    /\ patterns # << >>

\* C6: an unescaped '(' scanned outside quotes and inside parentheses raises
\* "Nested parenthesis are currently not supported."; so does "a (b (c) d".
C6_NestedParentheses ==
    [][ /\ (/\ AtCharacter
            /\ character = "("
            /\ ~Escaped(query, current_index)
            /\ ~inside_quotes
            /\ inside_parentheses)
            => Raised("Nested parenthesis are currently not supported.")'
        /\ (/\ input = <<"a", " ", "(", "b", " ", "(", "c", ")", " ", "d">>
            /\ pc' \in {"done", "error"})
            => Raised("Nested parenthesis are currently not supported.")'
      ]_vars

C6_Witness ==
    /\ Raised("Nested parenthesis are currently not supported.")
    /\ inside_parentheses
    /\ At(query, current_index) = "("

\* C7: for the inputs "(G) op C", op an operator symbol written after the
\* closing parenthesis, op is emitted before the clause C and C is emitted
\* without it, whatever the group content G is (G with at most one
\* double-quoted span here).
C7_OperatorAfterGroup ==
    (Returned /\ query = input) =>
        \A k \in 1..Len(input) : \A j \in (k + 1)..Len(input) :
            LET g == SubSeq(input, 2, k - 1)
                w == SubSeq(input, k + 1, j - 1)
                c == SubSeq(input, j + 1, Len(input))
            IN  (/\ input[1] = "("
                 /\ input[k] = ")"
                 /\ input[j] \in {"+", "|", "-"}
                 /\ Without(g, {"(", ")", "\\", SQ})
                 /\ Count(g, DQ) \in {0, 2}
                 /\ strip(g) # << >>
                 /\ strip(w) = << >>
                 /\ ClauseText(c))
                => result = <<<<"+">>, strip(g), <<input[j]>>, strip(c)>>

\* C8: a character inside a quoted span that is not the quote that opened the
\* span changes nothing but the position of the scan: no parenthesis mode, no
\* error, no operator, no emitted pattern, the span stays open, and the
\* character stays within the clause that is being read.
C8_QuotedCharactersAreInert ==
    [][ (AtCharacter /\ inside_quotes /\ character # current_quotes_symbol)
            => /\ pc' = "scan"
               /\ error' = error
               /\ query' = query
               /\ current_index' = current_index + 1
               /\ inside_parentheses' = inside_parentheses
               /\ inside_quotes'
               /\ current_quotes_symbol' = current_quotes_symbol
               /\ patterns' = patterns
               /\ preceding_operator' = preceding_operator
               /\ preceding_operator_position' = preceding_operator_position
               /\ following_operator' = following_operator
               /\ following_operator_position' = -1
               /\ pattern_beginning' = pattern_beginning
               /\ pattern_beginning' <= current_index
               /\ preceding_operator_position' < current_index
               /\ pattern_end' = current_index
      ]_vars

C8_Witness ==
    /\ pc = "scan"
    /\ inside_quotes
    /\ current_quotes_symbol = DQ
    /\ ~inside_parentheses
    /\ current_index > 1
    /\ At(query, current_index - 1) \in {"(", ")", "+", "|", SQ}
    /\ At(query, current_index - 2) \in {"(", ")", "+", "|", SQ}

\* the quoted spans of q that start at or after position i: an unescaped
\* quote up to the next unescaped quote of the same kind
RECURSIVE QuotedSpansFrom(_, _)
QuotedSpansFrom(q, i) ==
    IF i >= Len(q) THEN {}
    ELSE IF At(q, i) \in {DQ, SQ} /\ ~Escaped(q, i)
         THEN LET closes == {j \in (i + 1)..(Len(q) - 1) :
                                At(q, j) = At(q, i) /\ ~Escaped(q, j)}
              IN  IF closes = {} THEN {}
                  ELSE {Slice(q, i, Minimum(closes) + 1)}
                           \cup QuotedSpansFrom(q, Minimum(closes) + 1)
         ELSE QuotedSpansFrom(q, i + 1)

\* C9: when parse_query returns for a query with a parenthesis, the text of
\* every quoted span of the query is in an emitted clause as it was written:
\* and, or and not inside it are not replaced, wherever the span starts.
C9_QuotedWordsNotReplaced ==
    (Returned /\ ContainsParenthesis(input)) =>
        \A span \in QuotedSpansFrom(input, 0) :
            \E k \in 1..Len(result) : Occurs(span, result[k])

\* C10: a quote character that follows a backslash neither opens nor closes
\* a quoted span.
C10_EscapedQuoteIsInert ==
    [][ (/\ AtCharacter
         /\ character \in {DQ, SQ}
         /\ Escaped(query, current_index))
            => /\ inside_quotes' = inside_quotes
               /\ current_quotes_symbol' = current_quotes_symbol
      ]_vars

\* convert_query has returned
Converted == convert_pc = "done"

\* the lower-cased text of q starts with "find "
StartsWithFind(q) == Len(q) >= 5 /\ lower(SubSeq(q, 1, 5)) = <<"f", "i", "n", "d", " ">>

\* w with every '#' written as '*'
Starred(w) == [i \in DOMAIN w |-> IF w[i] = "#" THEN "*" ELSE w[i]]

C12_KeywordBeforeValue ==
    convert_pc = "author" =>
        \A k \in DOMAIN SPIRES_TO_INVENIO_KEYWORDS_MATCHINGS :
            \A v \in {<<"x">>, <<DQ, "x", " ", "y", DQ>>} :
                (/\ LiteralAt(spires_query, 0, <<"f", "i", "n", "d">> \o k)
                 /\ Slice(spires_query, 4 + Len(k), Len(spires_query)) = v)
                => converted_query = Slice(spires_query, 0, 4)
                                     \o SPIRES_TO_INVENIO_KEYWORDS_MATCHINGS[k] \o v

\* C13: for the legacy query "find ea NAME" or "find exact-author NAME"
\* convert_query returns author:"NAME", the name as it was written.
C13_ExactAuthorPhrase ==
    Converted =>
        \A f \in find_keywords : \A k \in {<<"e", "a", " ">>, <<"e", "x", "a", "c", "t", "-", "a", "u", "t", "h", "o", "r", " ">>} :
            \A n \in AuthorNames :
                spires_query = f \o k \o n
                => converted_query = <<"a", "u", "t", "h", "o", "r", ":", DQ>> \o n \o <<DQ>>

\* the date stages of convert_query have run
AfterDateStages ==
    convert_pc \in {"keywords", "author", "exact_author", "truncation",
                    "expand", "strip", "done"}

\* the text d is in q at position i, after a blank and before a blank or the
\* end of q
ShorthandAt(q, i, d) ==
    /\ i > 0 /\ At(q, i - 1) = SP
    /\ Slice(q, i, i + Len(d)) = d
    /\ (i + Len(d) = Len(q) \/ At(q, i + Len(d)) = SP)

HasShorthand(q, d) == \E i \in 1..Len(q) : ShorthandAt(q, i, d)

\* C14: once the date stages of a legacy query have run, and in what
\* convert_query returns, a shorthand date/d before/< YEAR is year:0->YEAR and
\* a shorthand date/d after/> YEAR is year:YEAR->9999; the keyword of the
\* shorthand is never made the field prefix 269__c:.
C14_DateShorthand ==
    (AfterDateStages /\ StartsWithFind(spires_query)) =>
        \A k \in DateKeywords : \A y \in {<<"1", "9", "9", "0">>} :
            /\ \A w \in {<<" ", "b", "e", "f", "o", "r", "e", " ">>, <<" ", "B", "E", "F", "O", "R", "E", " ">>, <<"<">>, <<" ", "<", " ">>} :
                   HasShorthand(spires_query, k \o w \o y)
                   => /\ Occurs(<<"y", "e", "a", "r", ":", "0", "-", ">">> \o y, converted_query)
                      /\ ~Occurs(<<"2", "6", "9", "_", "_", "c", ":">>, converted_query)
            /\ \A w \in {<<" ", "a", "f", "t", "e", "r", " ">>, <<" ", ">", " ">>} :
                   HasShorthand(spires_query, k \o w \o y)
                   => /\ Occurs(<<"y", "e", "a", "r", ":">> \o y \o <<"-", ">", "9", "9", "9", "9">>, converted_query)
                      /\ ~Occurs(<<"2", "6", "9", "_", "_", "c", ":">>, converted_query)

C14_Witness ==
    /\ Converted
    /\ spires_query = <<"F", "I", "N", "D", " ", "D", "A", "T", "E", " ", "B", "E", "F", "O", "R", "E", " ", "1", "9", "9", "0">>
    /\ converted_query = <<"y", "e", "a", "r", ":", "0", "-", ">", "1", "9", "9", "0">>

\* C15: a title or keyword field of a legacy query that is followed by K
\* words separated by blanks becomes K clauses of that field, one per word
\* in their order: after find they are joined by and, after and, or, not by
\* that same keyword.
C15_OneClausePerWord ==
    Converted =>
        \A f \in find_keywords : \A k \in {<<"t", " ">>, <<"T", " ">>, <<"k", " ">>, <<"t", "i", "t", "l", "e", ":">>} :
            \A ws \in UNION {[1..n -> {<<"x">>, <<"y">>, <<"y", "#">>}] : n \in 1..MaxValueWords} :
                LET term == IF k = <<"k", " ">> THEN <<"k", "e", "y", "w", "o", "r", "d", ":">> ELSE <<"t", "i", "t", "l", "e", ":">>
                    clauses == [n \in 1..Len(ws) |-> term \o Starred(ws[n])]
                IN  /\ spires_query = f \o k \o JoinWords(ws, <<SP>>)
                       => converted_query = JoinWords(clauses, <<" ", "a", "n", "d", " ">>)
                    /\ \A o \in combiners :
                           spires_query = f \o <<"a", " ", "e", "l", "l", "i", "s">> \o o \o k \o JoinWords(ws, <<SP>>)
                           => converted_query = <<"a", "u", "t", "h", "o", "r", ":", "e", "l", "l", "i", "s">> \o o \o JoinWords(clauses, o)

\* C16 as the claim states it: for "find a SURNAME" convert_query returns an
\* author clause of the surname with variants that end in the wildcard.
C16_BareSurnameWildcards ==
    Converted =>
        \A f \in find_keywords : \A k \in {<<"a", " ">>, <<"A", " ">>} :
            spires_query = f \o k \o <<"e", "l", "l", "i", "s">>
            => /\ Occurs(<<"a", "u", "t", "h", "o", "r", ":">>, converted_query)
               /\ Occurs(<<"e", "l", "l", "i", "s">>, converted_query)
               /\ Count(converted_query, "*") > 0

\* C16: for "find a SURNAME", the value a bare surname, convert_query returns
\* author:SURNAME and nothing else: no variant with a wildcard, no quoted
\* phrase, no phrase of the branch of the middle name.
C16_BareSurnameUnexpanded ==
    Converted =>
        \A f \in find_keywords : \A k \in {<<"a", " ">>, <<"A", " ">>} :
            spires_query = f \o k \o <<"e", "l", "l", "i", "s">>
            => converted_query = <<"a", "u", "t", "h", "o", "r", ":", "e", "l", "l", "i", "s">>

C16_Witness ==
    /\ Converted
    /\ spires_query = <<"F", "I", "N", "D", " ", "A", " ", "e", "l", "l", "i", "s">>
    /\ converted_query = <<"a", "u", "t", "h", "o", "r", ":", "e", "l", "l", "i", "s">>

\* C17: what convert_query returns for a legacy query has no '#' and at least
\* as many '*' as the query has '#' and '*'; a query that is not a legacy
\* query is returned with its '#'.
C17_TruncationSign ==
    Converted =>
        IF StartsWithFind(spires_query)
        THEN /\ Count(converted_query, "#") = 0
             /\ Count(converted_query, "*")
                    >= Count(spires_query, "#") + Count(spires_query, "*")
        ELSE Count(converted_query, "#") = Count(spires_query, "#")

C17_Witness ==
    /\ Converted
    /\ spires_query = <<"F", "I", "N", "D", " ", "T", " ", "y", "#">>
    /\ converted_query = <<"t", "i", "t", "l", "e", ":", "y", "*">>

\* C18: convert_query never raises, and for every match of the author stage
\* each of the five calls of _create_author_search_pattern returns a text,
\* never None.
C18_NeverRaises ==
    /\ convert_pc # "raised"
    /\ (convert_pc = "author" =>
            LET matches == AuthorMatchesFrom(converted_query, 0)
            IN  \A n \in DOMAIN matches : \A k \in 1..5 :
                    AuthorPatterns(matches[n], CFG_INSPIRE_SITE)[k] # None)

C18_Witness ==
    /\ Converted
    /\ spires_query = <<"f", "i", "n", "d", " ", "a", " ", "e", "l", "l", "i", "s", ",", " ", "j", " ", "r">>
    /\ converted_query = <<"a", "u", "t", "h", "o", "r", ":", DQ, "e", "l", "l", "i", "s", ",", " ", "j", "*", " ", "r", "*", DQ>>

\* the outcome of the call that has ended
Outcome == IF pc = "done" THEN <<"done", result>> ELSE <<"error", error>>

\* C19: whatever calls were made on the instance before, the outcome of a call
\* of parse_query (the returned list or the raised error) is the outcome of
\* the same query on a freshly constructed instance.
C19_OutcomeAsOnFreshInstance ==
    pc \in {"done", "error"} => Outcome = parse_query(input)

\* a call has returned on an instance whose previous call has raised inside
\* parentheses and has left its patterns and its flag
C19_Witness ==
    /\ pc = "done"
    /\ input = <<"a", "+">>
    /\ result = << <<"+">>, <<"a", "+">> >>
    /\ inside_parentheses
    /\ patterns # << >>
    /\ query # input

\* C20: for the inputs "C op (G)" without operator words and escapes, the
\* clause emitted for C is the trimmed text before the last operator symbol
\* written before '(' and that symbol is emitted once, before the clause of
\* the group.
C20_OperatorBeforeGroup ==
    (Returned /\ query = input) =>
        \A k \in 1..Len(input) : \A j \in 2..(k - 1) :
            LET c == SubSeq(input, 1, j - 1)
                g == SubSeq(input, k + 1, Len(input) - 1)
            IN  (/\ input[k] = "("
                 /\ input[Len(input)] = ")"
                 /\ input[j] \in {"+", "|", "-"}
                 /\ strip(SubSeq(input, j + 1, k - 1)) = << >>
                 /\ input[1] \notin {" ", "+", "|", "-"}
                 /\ Without(c, {"(", ")", "\\", SQ})
                 /\ Count(c, DQ) \in {0, 2}
                 /\ GroupText(g))
                => result = <<<<"+">>, strip(c), <<input[j]>>, strip(g)>>

C20_Witness ==
    /\ Returned
    /\ input = <<"a", "+", "|", "(", "a", ")">>
    /\ result = << <<"+">>, <<"a", "+">>, <<"|">>, <<"a">> >>

\* the positions of the parentheses of q from position i on that are neither
\* escaped nor quoted, a quoted span being opened by an unescaped quote and
\* closed by the next unescaped occurrence of the same symbol
RECURSIVE UnquotedParenthesesFrom(_, _, _)
UnquotedParenthesesFrom(q, i, symbol) ==
    IF i >= Len(q) THEN {}
    ELSE IF symbol # ""
    THEN UnquotedParenthesesFrom(q, i + 1,
             IF At(q, i) = symbol /\ ~Escaped(q, i) THEN "" ELSE symbol)
    ELSE IF At(q, i) \in quotes_symbols /\ ~Escaped(q, i)
    THEN UnquotedParenthesesFrom(q, i + 1, At(q, i))
    ELSE (IF At(q, i) \in {"(", ")"} /\ ~Escaped(q, i) THEN {i} ELSE {})
             \cup UnquotedParenthesesFrom(q, i + 1, "")

UnquotedParentheses(q) == UnquotedParenthesesFrom(q, 0, "")

\* the error of the first offending parenthesis among those at the positions
\* ps, read from left to right starting inside or outside of a group, and ""
\* when they form a flat balanced sequence
RECURSIVE FirstOffenceFrom(_, _, _)
FirstOffenceFrom(q, ps, inside) ==
    IF ps = {} THEN (IF inside THEN "Mismatched parenthesis." ELSE "")
    ELSE LET i == Minimum(ps)
         IN  IF At(q, i) = "(" /\ inside
             THEN "Nested parenthesis are currently not supported."
             ELSE IF At(q, i) = ")" /\ ~inside
             THEN "Mismatched parenthesis."
             ELSE FirstOffenceFrom(q, ps \ {i}, ~inside)

FirstOffence(q) == FirstOffenceFrom(q, UnquotedParentheses(q), FALSE)

\* the characters of q, in order, that are not whitespace, not an operator
\* symbol and not an unescaped unquoted parenthesis
Content(q) ==
    LET kept == {i \in 0..(Len(q) - 1) :
                    /\ ~isspace(At(q, i))
                    /\ At(q, i) \notin {"+", "|", "-"}
                    /\ i \notin UnquotedParentheses(q)}
    IN  [k \in 1..Cardinality(kept) |->
            At(q, CHOOSE i \in kept : Cardinality({j \in kept : j <= i}) = k)]

\* C21: when the unescaped unquoted parentheses of the cleaned query form a
\* flat balanced sequence that is not empty, the characters of the query that
\* are not whitespace, not such a parenthesis and not an operator symbol are,
\* in the same order, those of the emitted clauses taken in result order.
C21_ContentPreserved ==
    (/\ Returned
     /\ UnquotedParentheses(query) # {}
     /\ FirstOffence(query) = "")
        => Content(query) = Flatten([k \in DOMAIN result |-> Content(result[k])])

\* C23: parse_query raises exactly when the unescaped unquoted parentheses of
\* the query are nested or unbalanced, with the error of the first offending
\* parenthesis from the left (of the unclosed '(' when the end is reached);
\* "(a (b" raises the nested error and "a) (b (c" the mismatched one; a query
\* whose unescaped unquoted parentheses are flat and balanced returns a list.
C23_RaisesIffUnbalancedOrNested ==
    /\ pc = "done" => FirstOffence(input) = ""
    /\ pc = "error" => error = FirstOffence(input)
    /\ (pc = "error" /\ input = <<"(", "a", SP, "(", "b">>)
           => error = "Nested parenthesis are currently not supported."
    /\ (pc = "error" /\ input = <<"a", ")", SP, "(", "b", SP, "(", "c">>)
           => error = "Mismatched parenthesis."

\* the symbol of the quoted span that is open before position i of q when it
\* is symbol before position j, and "" outside quoted spans; a span is opened
\* and closed by unescaped quotes
RECURSIVE QuotesSymbolFrom(_, _, _, _)
QuotesSymbolFrom(q, j, i, symbol) ==
    IF j >= i THEN symbol
    ELSE IF symbol # ""
    THEN QuotesSymbolFrom(q, j + 1, i,
             IF At(q, j) = symbol /\ ~Escaped(q, j) THEN "" ELSE symbol)
    ELSE QuotesSymbolFrom(q, j + 1, i,
             IF At(q, j) \in quotes_symbols /\ ~Escaped(q, j) THEN At(q, j) ELSE "")

\* the scan is at a parenthesis that follows a backslash, outside quotes
AtEscapedParenthesis ==
    /\ AtCharacter
    /\ character \in {"(", ")"}
    /\ Escaped(query, current_index)
    /\ (~inside_quotes \/ QuotesSymbolFrom(query, 0, current_index, "") = "")

\* C24: scanning '(' or ')' that follows a backslash, outside quotes, leaves
\* the inside-parentheses mode as it is and does not raise; nothing is emitted
\* and the clause being accumulated keeps its beginning, so that the backslash
\* and the parenthesis are part of the text of an emitted clause; outside
\* parentheses the character assigns the default operator as any other
\* character of a clause does ("a\(b (c\))" gives ['+', 'a\(b', '+', 'c\)']).
C24_EscapedParenthesisIsContent ==
    [][ /\ AtEscapedParenthesis
            => /\ pc' = "scan"
               /\ inside_parentheses' = inside_parentheses
               /\ patterns' = patterns
               /\ pattern_beginning' = pattern_beginning
               /\ inside_quotes
                    \/ CurrentOperators' =
                         handle_non_white_space_characters(CurrentOperators,
                             inside_parentheses, character)
        /\ pc' = "done"
            => /\ \A i \in 1..(Len(query) - 1) :
                      (/\ query[i] = BS
                       /\ query[i + 1] \in {"(", ")"}
                       /\ QuotesSymbolFrom(query, 0, i, "") = "")
                          => \E k \in DOMAIN result' :
                                 Occurs(<<BS, query[i + 1]>>, result'[k])
               /\ input = <<"a", BS, "(", "b", SP, "(", "c", BS, ")", ")">>
                      => result' = << <<"+">>, <<"a", BS, "(", "b">>,
                                      <<"+">>, <<"c", BS, ")">> >>
      ]_vars

\* the scan has passed an escaped '(' outside parentheses, which has assigned
\* the default operator, and an escaped ')' inside parentheses
C24_Witness ==
    /\ Returned
    /\ input = <<"a", BS, "(", "b", SP, "(", "c", BS, ")", ")">>
    /\ result = << <<"+">>, <<"a", BS, "(", "b">>, <<"+">>, <<"c", BS, ")">> >>

\* C28: the text that the keyword substitution makes of a query is the same
\* for every two orders in which the entries of the keyword table are applied
\* (as for "find e t x", where the noise keyword ' e ' is followed by ' t ').
C28_SubstitutionOrderIndependent ==
    convert_pc = "keywords" =>
        \A first, second \in IterationOrders(converted_query) :
            replace_spires_keywords_with_invenio_keywords(converted_query, first)
                = replace_spires_keywords_with_invenio_keywords(converted_query, second)

\* C27: when convert_query is given a query that begins with "find " in any
\* case, the text still begins with "find " in some case after each of the
\* stages of the dates, the keywords, the authors, the exact authors, the
\* truncation and the expansion, and the last step removes these five
\* characters and nothing else.
C27_MarkerKeptUntilRemoved ==
    [][ /\ (StartsWithFind(spires_query) /\ convert_pc' \notin {"idle", "call", "done"})
            => StartsWithFind(converted_query')
        /\ convert_pc = "strip"
            => /\ StartsWithFind(converted_query)
               /\ converted_query = SubSeq(converted_query, 1, 5) \o converted_query'
      ]_vars

\* the expansion has rewritten the marker and the clause after it
C27_Witness ==
    /\ convert_pc = "strip"
    /\ spires_query = <<"F", "I", "N", "D", " ", "T", " ", "x", " ", "y">>
    /\ converted_query = <<"f", "i", "n", "d", " ", "t", "i", "t", "l", "e", ":", "x",
                           " ", "a", "n", "d", " ", "t", "i", "t", "l", "e", ":", "y">>

\* C25: for every match of the author pattern in the text given to the author
\* stage, exactly one of the five calls of _create_author_search_pattern, the
\* one of the alternative that matched, returns a text and the four others
\* return the empty string, so that what replaces the match is that text: it
\* is not empty and it is the pattern of one shape only.
C25_OneShapePerAuthorMatch ==
    convert_pc = "author" =>
        \A n \in DOMAIN AuthorMatchesFrom(converted_query, 0) :
            LET match == AuthorMatchesFrom(converted_query, 0)[n]
                ps == AuthorPatterns(match, CFG_INSPIRE_SITE)
            IN  /\ match.alternative \in 1..5
                /\ match.surname \notin {<< >>, None}
                /\ \A k \in 1..5 : ps[k] # << >> <=> k = match.alternative
                /\ ps[match.alternative] \notin {<< >>, None}
                /\ ps[1] \o ps[2] \o ps[3] \o ps[4] \o ps[5]
                     = create_author_search_pattern(match.name, match.middle_name,
                           match.surname, CFG_INSPIRE_SITE)

\* the author stage has replaced a match of the third alternative
C25_Witness ==
    /\ convert_pc = "exact_author"
    /\ spires_query = <<"f", "i", "n", "d", " ", "a", " ", "e", "l", "l", "i", "s", ",", " ", "j">>
    /\ converted_query = <<"f", "i", "n", "d", " ", "a", "u", "t", "h", "o", "r", ":",
                           DQ, "e", "l", "l", "i", "s", ",", " ", "j", "*", DQ>>

\* C22: the keyword substitution leaves the text of the quoted spans of a
\* legacy query as it is and rewrites the keywords of the text outside of
\* them, whatever the quotes are: in 'find t Q1 and k x and t Q2', where Q1 is
\* "", '' or "z" and Q2 is a quoted span, the keyword k between the spans is
\* translated and Q1 and Q2 are kept.
C22_QuotedSpansOpaque ==
    convert_pc = "author" =>
        \A a \in FirstSpans, b \in SecondSpans :
            spires_query = SpanQuery(a, b)
                => converted_query =
                       <<"f", "i", "n", "d", " ", "t", " ">> \o a
                           \o <<" ", "a", "n", "d", " ", "k", "e", "y", "w", "o", "r", "d", ":",
                                "x", " ", "a", "n", "d", " ", "t", " ">>
                           \o b

\* C26: when calls of parse_query run at the same time, each on an instance of
\* its own, and their steps interleave in any way, every call that has ended
\* has the outcome (the returned list or the raised error) of the same query
\* parsed alone, and the list of the class is never written to.
C26_ConcurrentOutcomeAsAlone ==
    /\ class_patterns = << >>
    /\ \A i \in DOMAIN parsers :
           /\ parsers[i].pc = "done"
                => <<"done", parsers[i].result>> = parse_query(parsers[i].input)
           /\ parsers[i].pc = "error"
                => <<"error", parsers[i].error>> = parse_query(parsers[i].input)

\* one call has returned the clauses of "a(a)" while the other, which has
\* emitted an operator and a clause, is still inside its parentheses
C26_Witness ==
    /\ parsers[1].pc = "done"
    /\ parsers[1].input = <<"a", "(", "a", ")">>
    /\ parsers[1].result = << <<"+">>, <<"a">>, <<"a">> >>
    /\ parsers[2].pc = "scan"
    /\ parsers[2].input = <<"a", "(", "a", ")">>
    /\ parsers[2].current_index = 3
    /\ parsers[2].scan.patterns = << <<"+">>, <<"a">> >>

====
